---- MODULE Spec2Model ----
(***************************************************************************)
(* A model of src/puppeteer.ts: the BrowserManager session, the eight      *)
(* capability services, the two traffic listeners and the driver `run`.    *)
(* Every awaited call of the page handle is a suspension point: the        *)
(* operation in flight is held in `call` and resumed by a later step, so   *)
(* that listener events interleave with it, and every awaited call may     *)
(* reject.                                                                 *)
(***************************************************************************)
EXTENDS Integers, Sequences, FiniteSets, TLC

\* ------------------------------------------------------------------ bounds
MaxCalls == 3       \* operations the client of every service issues
MaxEvents == 2      \* network events the listeners observe
MaxLog == 2         \* records in the log of the client of one service
MaxSessions == 2    \* browser handles, and page handles, ever created
MaxMeasures == 3    \* extent measurements of one scroll
MaxAnchors == 3     \* anchors of a pagination bar handed to discover
MaxTraffic == 5     \* records in the log of the client that watches the traffic
MaxSnap == 2        \* records of a snapshot handed to loadCookiesFromStorage

\* --------------------------------------------------------------- fixtures
OutputUrl == "ShowResults.aspx?Page=2"
DefaultGoToOptions == [waitUntil |-> "networkidle2", timeout |-> 30000]
ResourceTypes == {"document", "image", "font", "stylesheet", "other"}
Directions == {"vertical", "horizontal", "both"}
Extents == {0, 100, 250}
Elements == [scrollWidth : Extents, scrollHeight : Extents]
Bodies == {"body", "unreadable"}

\* a cookie is keyed by its name; the browser keeps one value per name
CookieNames == <<"sid">>
CookieValues == [sid |-> {"A", "B"}]
NoCookie == "none"
Jars == [sid : CookieValues.sid \cup {NoCookie}]
EmptyJar == [sid |-> NoCookie]

VARIABLES
    log,        \* BrowserManager._state, shared by every service and listener
    appends,    \* history: number of statePush invocations so far
    browser,    \* BrowserManager._browser: 0 is undefined, else a browser handle
    page,       \* BrowserManager._page: 0 is undefined, else a page handle
    browsers,   \* the browser handles created so far: connected or not
    pages,      \* the page handles created so far
    call,       \* the operation in flight, suspended at an await
    last,       \* the outcome of the operation that completed last
    file,       \* the content of output/output.json
    pending,    \* responses observed whose body read is still awaited
    nEvents,    \* history: number of network events observed so far
    lastReq,    \* history: the request intercepted last and how it was resolved
    closes,     \* history: number of completed BrowserManager.close calls
    earlyGoto,  \* history: a page.goto was issued on a page lacking a listener
    trip,       \* history: progress of a load -> setCookies -> getCookies chain
    driver      \* who issues the operations: any client, or the routine `run`

vars == <<log, appends, browser, page, browsers, pages, call, last, file,
          pending, nEvents, lastReq, closes, earlyGoto, trip, driver>>

\* ------------------------------------------------------------ the event log

\* a push that loses the record
statePush_lost(l, name, data) == l

\* PageService.statePush: this._state.push({ [this.constructor.name]: data })
statePush(l, name, data) == Append(l, [src |-> name, data |-> data])

\* RequestListener.statePush: this._state.push({ [this.constructor.name]: data })
listenerStatePush(l, name, data) == Append(l, [src |-> name, data |-> data])

\* ------------------------------------------------------------- JSON files

Missing == [kind |-> "missing", value |-> <<>>]
Malformed == [kind |-> "malformed", value |-> <<>>]
NotIterable == [kind |-> "object", value |-> <<>>]
JsonArray(items) == [kind |-> "array", value |-> items]

NullItem == [t |-> "null", key |-> "", val |-> <<>>]
NumberItem == [t |-> "number", key |-> "", val |-> <<>>]
ObjectItem(k, v) == [t |-> "object", key |-> k, val |-> v]

RECURSIVE stringifyFrom(_, _)
stringifyFrom(l, i) ==
    IF i > Len(l) THEN <<>>
    ELSE <<ObjectItem(l[i].src, l[i].data)>> \o stringifyFrom(l, i + 1)

\* JSON.stringify(content) of the log: an array of one-key objects
JsonStringify(l) == JsonArray(stringifyFrom(l, 1))

\* ----------------------------------------------------------------- cookies

Cookie(n, v) == [name |-> n, value |-> v]

RECURSIVE jarFrom(_, _)
jarFrom(jar, i) ==
    IF i > Len(CookieNames) THEN <<>>
    ELSE (IF jar[CookieNames[i]] = NoCookie THEN <<>>
          ELSE <<Cookie(CookieNames[i], jar[CookieNames[i]])>>)
         \o jarFrom(jar, i + 1)

\* page.cookies(): the cookies the page holds, in the browser's order
pageCookies(jar) == jarFrom(jar, 1)

RECURSIVE setCookieFrom(_, _, _)
setCookieFrom(jar, input, i) ==
    IF i > Len(input) THEN jar
    ELSE setCookieFrom([jar EXCEPT ![input[i].name] = input[i].value], input, i + 1)

\* page.setCookie(...input): each cookie replaces the one of its name
pageSetCookie(jar, input) == setCookieFrom(jar, input, 1)

JarSeqs == {pageCookies(j) : j \in Jars}
CookieInputs == JarSeqs \cup {<<Cookie("sid", "A"), Cookie("sid", "B")>>}

\* the for-of loop of loadCookiesFromStorage over output.default
RECURSIVE scanLogs(_, _)
scanLogs(items, i) ==
    IF i > Len(items) THEN [threw |-> FALSE, cookies |-> <<>>]
    ELSE IF items[i].t = "null"
         \* typeof null === "object", and `in` on null is a TypeError
         THEN [threw |-> TRUE, cookies |-> <<>>]
    ELSE IF items[i].t = "object" /\ items[i].key = "CookiesService"
         THEN [threw |-> FALSE, cookies |-> items[i].val]
    ELSE scanLogs(items, i + 1)

\* the .then callback: a value that is not iterable makes for-of throw
thenScan(f) ==
    IF f.kind = "array" THEN scanLogs(f.value, 1)
    ELSE [threw |-> TRUE, cookies |-> <<>>]

\* the same chain without its .catch: a rejection reaches the caller
loadCookies_uncaught(f) ==
    IF f.kind \in {"missing", "malformed"} \/ thenScan(f).threw
    THEN [status |-> "threw", val |-> <<>>]
    ELSE [status |-> "ok", val |-> thenScan(f).cookies]

\* import(path).then(...).catch(() => []); return cookies
loadCookies(f) ==
    IF f.kind \in {"missing", "malformed"}
    THEN [status |-> "ok", val |-> <<>>]
    ELSE [status |-> "ok", val |-> thenScan(f).cookies]

\* snapshots a client may hand to loadCookiesFromStorage
SnapItems ==
    {NullItem, NumberItem,
     ObjectItem("NavigationService", <<[url |-> OutputUrl, options |-> DefaultGoToOptions]>>)}
    \cup {ObjectItem("CookiesService", c) : c \in JarSeqs}
RECURSIVE SeqsUpTo(_, _)
SeqsUpTo(S, n) ==
    IF n = 0 THEN {<<>>}
    ELSE LET shorter == SeqsUpTo(S, n - 1)
         IN  shorter \cup {Append(s, x) : s \in shorter, x \in S}
Snapshots ==
    {Missing, Malformed, NotIterable} \cup {JsonArray(s) : s \in SeqsUpTo(SnapItems, MaxSnap)}
\* the few a client of every service hands over
FewSnapshots ==
    {Malformed, JsonArray(<<NullItem>>),
     JsonArray(<<ObjectItem("CookiesService", <<Cookie("sid", "A")>>)>>)}
FewElements ==
    {[scrollWidth |-> 100, scrollHeight |-> 100], [scrollWidth |-> 100, scrollHeight |-> 250]}

\* ------------------------------------------------------- calls and returns

ServiceNames ==
    {"NavigationService", "ScrollService", "CookiesService", "ClickService",
     "MetricsService", "PaginationService", "ScreenshotService", "ContentService"}
ListenerNames == {"RequestInterceptorListener", "ResponseInterceptorListener"}

\* the statements of `run`, in order
RunSteps ==
    <<"initialize", "loadCookiesFromStorage", "setCookies", "navigate",
      "cookiesClose", "discover", "getResults", "getCookies", "screenshot",
      "getContent", "exportState", "close">>

\* browserLoc of `run`: REMOTE_BROWSER wins over EXECUTABLE_PATH, whose default
\* is /usr/bin/google-chrome
RunOptions(env) ==
    IF "REMOTE_BROWSER" \in env THEN {"ignoreHTTPSErrors", "browserWSEndpoint"}
    ELSE {"ignoreHTTPSErrors", "executablePath"}

\* the options a caller passes to initialize
OptionSets ==
    {{"ignoreHTTPSErrors"} \cup o : o \in SUBSET {"browserWSEndpoint", "executablePath"}}

Idle == [op |-> "none", pc |-> "", p |-> 0, arg |-> <<>>, base |-> 0, acc |-> <<>>]
NoLast ==
    [op |-> "none", status |-> "ok", val |-> <<>>, base |-> 0, p |-> 0,
     arg |-> <<>>, acc |-> <<>>, err |-> ""]

\* -------------------------------------------------------------- pagination

\* an anchor of "#pagination a": its textContent and its href property, which
\* is "" without an href attribute and an absolute URL otherwise
Blank == [blank |-> TRUE, query |-> <<>>]
Url(query) == [blank |-> FALSE, query |-> query]
Anchor(text, href) == [text |-> text, href |-> href]
PageAnchor(n) == Anchor(n, Url(<<<<"Page", n>>>>))

NaN == [nan |-> TRUE, n |-> 0]
Number(n) == [nan |-> FALSE, n |-> n]

\* parseInt(textContent.trim(), 10): the leading integer of the text, NaN
\* when the text does not start with one
parseInt(text) ==
    CASE text = "0" -> Number(0)
      [] text = "1" -> Number(1)
      [] text = "2" -> Number(2)
      [] text = "3" -> Number(3)
      [] text = "4" -> Number(4)
      [] text = "5" -> Number(5)
      [] text = "-1" -> Number(-1)
      [] OTHER -> NaN

\* key.toLocaleLowerCase()
toLocaleLowerCase(key) ==
    CASE key = "Page" -> "page"
      [] key = "SortBy" -> "sortby"
      [] OTHER -> key

\* params.forEach((value, key) => paramsObj[key.toLocaleLowerCase()] = value):
\* a later pair overwrites an earlier one under the same lower-cased key
RECURSIVE paramsFrom(_, _, _)
paramsFrom(query, i, obj) ==
    IF i > Len(query) THEN obj
    ELSE LET key == toLocaleLowerCase(query[i][1])
         IN  paramsFrom(query, i + 1,
                        [k \in DOMAIN obj \cup {key} |->
                            IF k = key THEN query[i][2] ELSE obj[k]])

\* _extractParams(href): new URL("") throws, and the catch returns null
extractParams(href) ==
    IF href.blank THEN [null |-> TRUE, params |-> <<>>]
    ELSE [null |-> FALSE, params |-> paramsFrom(href.query, 1, <<>>)]

\* the .map callback: pos is the index in the unfiltered list
RECURSIVE mapAnchors(_, _)
mapAnchors(doc, i) ==
    IF i > Len(doc) THEN <<>>
    ELSE <<[page |-> parseInt(doc[i].text), href |-> doc[i].href, pos |-> i - 1,
            props |-> extractParams(doc[i].href)]>> \o mapAnchors(doc, i + 1)

\* a filter that lets every label through
keeps_everyLabel(e) == ~e.href.blank

\* the .filter callback: page >= 0 && href.trim() !== ""; NaN >= 0 is false
keeps(e) == ~e.page.nan /\ e.page.n >= 0 /\ ~e.href.blank

RECURSIVE filterEntries(_, _)
filterEntries(es, i) ==
    IF i > Len(es) THEN <<>>
    ELSE (IF keeps(es[i]) THEN <<es[i]>> ELSE <<>>) \o filterEntries(es, i + 1)

\* the comparator of .sort((v) => v.pos): its second argument is not used
compareFn(a, b) == a.pos

\* Array.prototype.sort of the browser's engine on a short array: the leading
\* run is extended while comparefn(current, previous) keeps its sign, a
\* descending run is reversed, and the rest is inserted by binary search
RECURSIVE extendRun(_, _, _)
extendRun(a, idx, descending) ==
    IF idx > Len(a) THEN idx - 1
    ELSE LET order == compareFn(a[idx], a[idx - 1])
         IN  IF (descending /\ order >= 0) \/ (~descending /\ order < 0)
             THEN idx - 1
             ELSE extendRun(a, idx + 1, descending)

RECURSIVE reverse(_)
reverse(a) == IF a = <<>> THEN <<>> ELSE reverse(Tail(a)) \o <<Head(a)>>

RECURSIVE search(_, _, _, _)
search(a, pivot, left, right) ==
    IF left >= right THEN left
    ELSE LET mid == left + ((right - left) \div 2)
         IN  IF compareFn(pivot, a[mid]) < 0
             THEN search(a, pivot, left, mid)
             ELSE search(a, pivot, mid + 1, right)

RECURSIVE binaryInsertionSort(_, _)
binaryInsertionSort(a, start) ==
    IF start > Len(a) THEN a
    ELSE LET at == search(a, a[start], 1, start)
             moved == SubSeq(a, 1, at - 1) \o <<a[start]>> \o SubSeq(a, at, start - 1)
                         \o SubSeq(a, start + 1, Len(a))
         IN  binaryInsertionSort(moved, start + 1)

arraySort(a) ==
    IF Len(a) < 2 THEN a
    ELSE LET descending == compareFn(a[2], a[1]) < 0
             run == extendRun(a, 3, descending)
             made == IF descending
                     THEN reverse(SubSeq(a, 1, run)) \o SubSeq(a, run + 1, Len(a))
                     ELSE a
         IN  binaryInsertionSort(made, run + 1)

\* the first page.evaluate of discover: map, filter, sort
discoverPages(doc) == arraySort(filterEntries(mapAnchors(doc, 1), 1))

\* the anchors of the documents handed to discover
AnchorPool ==
    {PageAnchor("1"), PageAnchor("2"),
     Anchor("Next", Url(<<<<"Page", "2">>>>)),
     Anchor("-1", Url(<<<<"Page", "1">>>>)),
     Anchor("3", Blank),
     Anchor("0", Url(<<>>)),
     Anchor("2", Url(<<<<"SortBy", "MostRecent">>, <<"Page", "2">>, <<"page", "9">>>>))}
FiveAnchors ==
    <<PageAnchor("1"), PageAnchor("2"), PageAnchor("3"), PageAnchor("4"), PageAnchor("5")>>
Documents == SeqsUpTo(AnchorPool, MaxAnchors) \cup {FiveAnchors}
FewDocuments == {FiveAnchors}

\* the class whose name tags the records of an operation
ServiceOf(op) ==
    CASE op = "navigate" -> "NavigationService"
      [] op = "scroll" -> "ScrollService"
      [] op \in {"loadCookiesFromStorage", "setCookies", "getCookies", "cookiesClose"}
            -> "CookiesService"
      [] op = "click" -> "ClickService"
      [] op = "getResults" -> "MetricsService"
      [] op = "discover" -> "PaginationService"
      [] op = "screenshot" -> "ScreenshotService"
      [] op = "getContent" -> "ContentService"
      [] OTHER -> "BrowserManager"

\* the records of the log that carry the tag `name`
CountSrc(l, name) == Cardinality({i \in 1..Len(l) : l[i].src = name})

\* history: the records an operation (in flight, or the last to complete) has
\* appended; c.base is the count of its class's records when it was called
OwnAppends(c) == CountSrc(log, ServiceOf(c.op)) - c.base
NoTrip == [stage |-> 0, p |-> 0, exported |-> FALSE, sets |-> {}, val |-> <<>>, at |-> 0]
NoReq == [resourceType |-> "", aborts |-> 0, continues |-> 0, at |-> 0]

NewPage(b) ==
    [open |-> TRUE, owner |-> b, intercept |-> FALSE, reqH |-> 0, respH |-> 0,
     navigated |-> FALSE, jar |-> EmptyJar]

InitCommon ==
    /\ log = <<>>
    /\ appends = 0
    /\ browser = 0
    /\ page = 0
    /\ browsers = <<>>
    /\ pages = <<>>
    /\ call = Idle
    /\ last = NoLast
    /\ pending = {}
    /\ nEvents = 0
    /\ lastReq = NoReq
    /\ closes = 0
    /\ earlyGoto = FALSE
    /\ trip = NoTrip

\* a free client of the exported classes: any operation, in any order
Init ==
    /\ InitCommon
    /\ file = Missing
    /\ driver = [mode |-> "client", pc |-> 0, env |-> {}]

\* a client of the cookies service alone, and one of the scroll service alone
InitCookies ==
    /\ InitCommon
    /\ file = Missing
    /\ driver = [mode |-> "cookies", pc |-> 0, env |-> {}]

InitScroll ==
    /\ InitCommon
    /\ file = Missing
    /\ driver = [mode |-> "scroll", pc |-> 0, env |-> {}]

\* a client that initializes once, navigates and lets the traffic come
InitTraffic ==
    /\ InitCommon
    /\ file = Missing
    /\ driver = [mode |-> "traffic", pc |-> 0, env |-> {}]

\* a client of the pagination service alone
InitPagination ==
    /\ InitCommon
    /\ file = Missing
    /\ driver = [mode |-> "pagination", pc |-> 0, env |-> {}]

\* the driver routine `run`, under every environment and prior output file
InitRun ==
    /\ InitCommon
    /\ file \in {Missing, JsonArray(<<ObjectItem("CookiesService", <<Cookie("sid", "A")>>)>>)}
    /\ driver \in [mode : {"run"}, pc : {1},
                   env : SUBSET {"REMOTE_BROWSER", "EXECUTABLE_PATH"}]

\* the inputs the environment presents: every one of them to the client of one
\* service, a few to the client of all of them
InputSnapshots == IF driver.mode = "cookies" THEN Snapshots ELSE FewSnapshots
InputElements == IF driver.mode = "scroll" THEN Elements ELSE FewElements
InputDocuments == IF driver.mode = "pagination" THEN Documents ELSE FewDocuments

\* the client of one service initializes until it holds a page, then uses
\* that service
OneService == driver.mode \in {"cookies", "scroll", "pagination", "traffic"}

\* the operation `op` may be issued now: nothing is in flight, and the driver
\* is at that statement
MayCall(op) ==
    /\ call.op = "none"
    /\ driver.mode \notin {"done", "failed"}
    /\ driver.mode = "client" => driver.pc < MaxCalls
    /\ driver.mode = "run" => RunSteps[driver.pc] = op
    /\ (OneService /\ op = "initialize") => page = 0

\* the operations that push their record when their last await settles
PushesLast == {"getCookies", "discover", "getResults", "screenshot", "getContent"}

\* the records still to come from what is in flight
owed == Cardinality(pending) + (IF call.op \in PushesLast THEN 1 ELSE 0)

\* the bounds of the model: the client of one service fills the log up to
\* MaxLog records (MaxTraffic for the one that watches the traffic); elsewhere
\* the listeners observe at most MaxEvents events
LogRoom == IF driver.mode = "traffic" THEN MaxTraffic ELSE MaxLog
RoomFor(n) == OneService => Len(log) + owed + n <= LogRoom
EventRoom(n) == IF OneService THEN RoomFor(n) ELSE nEvents < MaxEvents

\* the driver after an operation returned or threw: `run` has no try/catch,
\* so a throw ends it
driverAfter(status) ==
    IF driver.mode = "client" THEN [driver EXCEPT !.pc = @ + 1]
    ELSE IF driver.mode # "run" THEN driver
    ELSE IF status # "ok" THEN [driver EXCEPT !.mode = "failed"]
    ELSE IF driver.pc = Len(RunSteps) THEN [driver EXCEPT !.mode = "done"]
    ELSE [driver EXCEPT !.pc = @ + 1]

\* a snapshot as exportState writes it: an array of one-key objects
WrittenByExport(f) ==
    f.kind = "array" /\ \A i \in 1..Len(f.value) : f.value[i].t = "object"

\* the non-empty cookie sets of the Cookies-sourced records of a snapshot
CookieSetsOf(f) ==
    IF f.kind # "array" THEN {}
    ELSE {f.value[i].val : i \in {j \in 1..Len(f.value) :
             /\ f.value[j].t = "object"
             /\ f.value[j].key = "CookiesService"
             /\ f.value[j].val # <<>>}}

tripAfter(op, status, p, arg, val, at) ==
    IF op = "loadCookiesFromStorage" /\ status = "ok" /\ pages[p].jar = EmptyJar
    THEN [stage |-> 1, p |-> p, exported |-> WrittenByExport(arg),
          sets |-> CookieSetsOf(arg), val |-> val, at |-> 0]
    ELSE IF op = "setCookies" /\ status = "ok" /\ trip.stage = 1 /\ trip.p = p
            /\ arg = trip.val
    THEN [trip EXCEPT !.stage = 2]
    ELSE IF op = "getCookies" /\ status = "ok" /\ trip.stage = 2 /\ trip.p = p
    THEN [trip EXCEPT !.stage = 3, !.at = at]
    ELSE NoTrip

\* the operation starts and suspends at its first await
Suspend(op, pc, p, arg, acc) ==
    /\ call' = [op |-> op, pc |-> pc, p |-> p, arg |-> arg,
                base |-> CountSrc(log, ServiceOf(op)), acc |-> acc]
    /\ last' = NoLast
    /\ UNCHANGED <<driver, trip>>

\* the operation in flight moves on to its next await
Resume(pc, acc) ==
    /\ call' = [call EXCEPT !.pc = pc, !.acc = acc]
    /\ UNCHANGED <<last, driver, trip>>

\* the operation in flight returns (status "ok") or throws
Finish(status, val, err, at) ==
    /\ last' = [op |-> call.op, status |-> status, val |-> val,
                base |-> call.base, p |-> call.p, arg |-> call.arg,
                acc |-> call.acc, err |-> err]
    /\ call' = Idle
    /\ driver' = driverAfter(status)
    /\ trip' = tripAfter(call.op, status, call.p, call.arg, val, at)

\* an operation that returns or throws without suspending
Direct(op, p, arg, status, val, err) ==
    /\ last' = [op |-> op, status |-> status, val |-> val,
                base |-> CountSrc(log, ServiceOf(op)), p |-> p, arg |-> arg,
                acc |-> <<>>, err |-> err]
    /\ call' = Idle
    /\ driver' = driverAfter(status)
    /\ trip' = IF p = 0 THEN NoTrip ELSE tripAfter(op, status, p, arg, val, 0)

InFlight(op, pc) == call.op = op /\ call.pc = pc

\* the page handle p can serve a request: it and its browser are open
Live(p) == pages[p].open /\ browsers[pages[p].owner]

netVars == <<pending, nEvents, lastReq>>
mgrVars == <<browser, page, browsers, pages>>
logVars == <<log, appends>>

\* ---------------------------------------------------------- BrowserManager

\* RequestInterceptorListener.attach, once setRequestInterception(true) resolved:
\* page.on("request", ...)
requestAttach(pg) == [pg EXCEPT !.intercept = TRUE, !.reqH = @ + 1]

\* an attach that subscribes nothing
responseAttach_skipped(pg) == pg

\* ResponseInterceptorListener.attach: page.on("response", ...)
responseAttach(pg) == [pg EXCEPT !.respH = @ + 1]

\* a selection that prefers the executable path
browserSource_launchFirst(opts) ==
    IF "executablePath" \in opts THEN "launch"
    ELSE IF "browserWSEndpoint" \in opts THEN "connect"
    ELSE "none"

\* a selection that launches a default browser when the options name none
browserSource_defaultLaunch(opts) ==
    IF "browserWSEndpoint" \in opts THEN "connect" ELSE "launch"

\* if ("browserWSEndpoint" in options) connect; else if ("executablePath" in
\* options) launch
browserSource(opts) ==
    IF "browserWSEndpoint" \in opts THEN "connect"
    ELSE IF "executablePath" \in opts THEN "launch"
    ELSE "none"

\* initialize(options), up to its first await: connect when the options hold
\* browserWSEndpoint, else launch when they hold executablePath, else neither,
\* and then the getter `browser` throws unless an earlier call set _browser
initialize(opts) ==
    /\ MayCall("initialize")
    /\ driver.mode = "run" => opts = RunOptions(driver.env)
    /\ Len(browsers) < MaxSessions /\ Len(pages) < MaxSessions
    /\ IF browserSource(opts) # "none"
       THEN Suspend("initialize", browserSource(opts), 0, opts,
                    [how |-> browserSource(opts)])
       ELSE IF browser = 0
       THEN Direct("initialize", 0, opts, "threw", <<>>, "Missing browser instance")
       ELSE Suspend("initialize", "newPage", 0, opts, [how |-> "none"])
    /\ UNCHANGED <<logVars, mgrVars, netVars, file, closes, earlyGoto>>

\* puppeteer.connect / puppeteer.launch settles; then this.browser.newPage()
initialize_browser ==
    /\ call.op = "initialize" /\ call.pc \in {"connect", "launch"}
    /\ \E ok \in BOOLEAN :
        IF ok
        THEN /\ browsers' = Append(browsers, TRUE)
             /\ browser' = Len(browsers) + 1
             /\ Resume("newPage", call.acc)
        ELSE /\ Finish("threw", <<>>, "browser unreachable", 0)
             /\ UNCHANGED <<browsers, browser>>
    /\ UNCHANGED <<logVars, page, pages, netVars, file, closes, earlyGoto>>

\* browser.newPage() settles: _page is set, the listeners are constructed and
\* the first one's attach awaits page.setRequestInterception(true)
initialize_newPage ==
    /\ InFlight("initialize", "newPage")
    /\ \E ok \in BOOLEAN :
        IF ok /\ browsers[browser]
        THEN /\ pages' = Append(pages, NewPage(browser))
             /\ page' = Len(pages) + 1
             /\ Resume("setRequestInterception", call.acc)
        ELSE /\ Finish("threw", <<>>, "newPage failed", 0)
             /\ UNCHANGED <<pages, page>>
    /\ UNCHANGED <<logVars, browser, browsers, netVars, file, closes, earlyGoto>>

\* setRequestInterception settles: both listeners subscribe, in registry order,
\* and initialize returns
initialize_attach ==
    /\ InFlight("initialize", "setRequestInterception")
    /\ \E ok \in BOOLEAN :
        IF ok /\ Live(page)
        THEN /\ pages' = [pages EXCEPT ![page] = responseAttach(requestAttach(@))]
             /\ Finish("ok", <<>>, "", 0)
        ELSE /\ Finish("threw", <<>>, "setRequestInterception failed", 0)
             /\ UNCHANGED pages
    /\ UNCHANGED <<logVars, browser, page, browsers, netVars, file, closes, earlyGoto>>

\* what fs.writeFileSync can do to the file: it opens the path for writing,
\* which truncates it, and writes until done; it throws when the open fails
\* (the file stays as it was) or when a write fails (the file stays cut short)
WriteOutcomes == {"written", "refused", "cut"}

\* saveToFile: fs.writeFileSync in a try/catch that only reports
saveToFile(old, content, outcome) ==
    CASE outcome = "written" -> JsonStringify(content)
      [] outcome = "refused" -> old
      [] outcome = "cut" -> Malformed

\* exportState(path): never suspends, never throws
exportState ==
    /\ MayCall("exportState")
    /\ \E outcome \in WriteOutcomes :
        /\ file' = saveToFile(file, log, outcome)
        /\ Direct("exportState", 0, [old |-> file, state |-> log], "ok", outcome, "")
    /\ UNCHANGED <<logVars, mgrVars, netVars, closes, earlyGoto>>

\* close(), up to its first await: the getter `page` throws when _page is unset
close ==
    /\ MayCall("close")
    /\ IF page = 0
       THEN Direct("close", 0, <<>>, "threw", <<>>, "Missing page instance")
       ELSE Suspend("close", "pageClose", page, <<>>, <<>>)
    /\ UNCHANGED <<logVars, mgrVars, netVars, file, closes, earlyGoto>>

\* page.close() settles; then browser.close()
close_page ==
    /\ InFlight("close", "pageClose")
    /\ \E ok \in BOOLEAN :
        IF ok /\ Live(page)
        THEN /\ pages' = [pages EXCEPT ![page].open = FALSE]
             /\ Resume("browserClose", <<>>)
        ELSE /\ Finish("threw", <<>>, "page.close failed", 0)
             /\ UNCHANGED pages
    /\ UNCHANGED <<logVars, browser, page, browsers, netVars, file, closes, earlyGoto>>

\* browser.close() settles: the browser and every page of it are gone
close_browser ==
    /\ InFlight("close", "browserClose")
    /\ \E ok \in BOOLEAN :
        IF ok /\ browsers[browser]
        THEN /\ browsers' = [browsers EXCEPT ![browser] = FALSE]
             /\ closes' = closes + 1
             /\ Finish("ok", <<>>, "", 0)
        ELSE /\ Finish("threw", <<>>, "browser.close failed", 0)
             /\ UNCHANGED <<browsers, closes>>
    /\ UNCHANGED <<logVars, browser, page, pages, netVars, file, earlyGoto>>

\* a getter that hands out whatever the field holds
get_page_unguarded ==
    /\ MayCall("page")
    /\ Direct("page", 0, <<>>, "ok", page, "")
    /\ UNCHANGED <<logVars, mgrVars, netVars, file, closes, earlyGoto>>

\* get page(): if (!this._page) throw new Error("Missing page instance")
get_page ==
    /\ MayCall("page")
    /\ IF page = 0
       THEN Direct("page", 0, <<>>, "threw", 0, "Missing page instance")
       ELSE Direct("page", 0, <<>>, "ok", page, "")
    /\ UNCHANGED <<logVars, mgrVars, netVars, file, closes, earlyGoto>>

\* get browser(): if (!this._browser) throw new Error("Missing browser instance")
get_browser ==
    /\ MayCall("browser")
    /\ IF browser = 0
       THEN Direct("browser", 0, <<>>, "threw", 0, "Missing browser instance")
       ELSE Direct("browser", 0, <<>>, "ok", browser, "")
    /\ UNCHANGED <<logVars, mgrVars, netVars, file, closes, earlyGoto>>

\* get(name): the registry lookup, then new ServiceClass(this.page, this._state)
get(name) ==
    /\ MayCall("get")
    /\ IF name \notin ServiceNames
       THEN Direct("get", 0, name, "threw", <<>>, "Service not found")
       ELSE IF page = 0
       THEN Direct("get", 0, name, "threw", <<>>, "Missing page instance")
       ELSE Direct("get", 0, name, "ok", page, "")
    /\ UNCHANGED <<logVars, mgrVars, netVars, file, closes, earlyGoto>>

\* listen(name): the registry lookup, then new ListenerClass(this.page, this._state);
\* the constructor attaches nothing
listen(name) ==
    /\ MayCall("listen")
    /\ IF name \notin ListenerNames
       THEN Direct("listen", 0, name, "threw", <<>>, "Listener not found")
       ELSE IF page = 0
       THEN Direct("listen", 0, name, "threw", <<>>, "Missing page instance")
       ELSE Direct("listen", 0, name, "ok", page, "")
    /\ UNCHANGED <<logVars, mgrVars, netVars, file, closes, earlyGoto>>

\* ------------------------------------------------------- traffic listeners

BlockedTypes == {"font", "stylesheet", "other"}

\* a block list that misses "other"
aborted_fewer(resourceType) == resourceType \in {"font", "stylesheet"}

\* const aborted = ["font", "stylesheet", "other"].indexOf(resourceType) >= 0
aborted(resourceType) == resourceType \in BlockedTypes

RECURSIVE pushTimes(_, _, _, _)
pushTimes(l, n, name, data) ==
    IF n = 0 THEN l ELSE pushTimes(listenerStatePush(l, name, data), n - 1, name, data)

\* a handler whose abort does not return: an aborted request is continued too
resolution_fallthrough(isAborted) ==
    [aborts |-> IF isAborted THEN 1 ELSE 0, continues |-> 1]

\* what the "request" handler does with the request once its record is pushed:
\* if (aborted) return request.abort(); request.continue()
resolution(isAborted) ==
    [aborts |-> IF isAborted THEN 1 ELSE 0, continues |-> IF isAborted THEN 0 ELSE 1]

\* a request of the page reaches the "request" handlers: each pushes its record
\* and resolves the request
requestEvent(p, resourceType) ==
    /\ Live(p) /\ pages[p].reqH > 0 /\ pages[p].navigated
    /\ EventRoom(pages[p].reqH)
    /\ LET n == pages[p].reqH
           rec == [id |-> nEvents + 1, on |-> p, resourceType |-> resourceType,
                   aborted |-> aborted(resourceType)]
           res == resolution(aborted(resourceType))
       IN  /\ log' = pushTimes(log, n, "RequestInterceptorListener", <<rec>>)
           /\ appends' = appends + n
           /\ lastReq' = [resourceType |-> resourceType,
                          aborts |-> n * res.aborts, continues |-> n * res.continues,
                          at |-> Len(log) + 1]
    /\ nEvents' = nEvents + 1
    /\ UNCHANGED <<mgrVars, call, last, file, pending, closes, earlyGoto, trip, driver>>

\* the requests of page p that the handler let through and whose response has
\* not been observed yet: an intercepted request is held until it is resolved,
\* an aborted one gets no response, a continued one gets one
awaiting(p) ==
    {log[i].data[1].id : i \in {j \in 1..Len(log) :
        /\ log[j].src = "RequestInterceptorListener"
        /\ log[j].data[1].on = p
        /\ ~log[j].data[1].aborted}}
      \ ({r.req : r \in pending}
           \cup {log[i].data[1].req : i \in {j \in 1..Len(log) :
                    log[j].src = "ResponseInterceptorListener"}})

\* the response to the request `req` reaches the "response" handler, which
\* reads its fields and awaits response.text()
responseEvent(p, req, body) ==
    /\ Live(p) /\ pages[p].respH > 0 /\ pages[p].navigated
    /\ req \in awaiting(p)
    /\ EventRoom(1)
    /\ nEvents' = nEvents + 1
    /\ pending' = pending \cup {[id |-> nEvents + 1, req |-> req, body |-> body]}
    /\ UNCHANGED <<logVars, mgrVars, call, last, file, lastReq, closes, earlyGoto,
                   trip, driver>>

\* const content = await response.text().catch(() => null)
content(body) == IF body = "unreadable" THEN "null" ELSE body

\* a handler that gives up on a response whose body cannot be read
responseLogged_lossy(r) ==
    /\ r \in pending
    /\ pending' = pending \ {r}
    /\ IF r.body = "unreadable"
       THEN UNCHANGED logVars
       ELSE /\ log' = listenerStatePush(log, "ResponseInterceptorListener",
                                        <<[id |-> r.id, req |-> r.req,
                                          content |-> r.body]>>)
            /\ appends' = appends + 1
    /\ UNCHANGED <<mgrVars, call, last, file, nEvents, lastReq, closes, earlyGoto,
                   trip, driver>>

\* response.text() settles: the handler pushes its record
responseLogged(r) ==
    /\ r \in pending
    /\ pending' = pending \ {r}
    /\ log' = listenerStatePush(log, "ResponseInterceptorListener",
                                <<[id |-> r.id, req |-> r.req,
                                   content |-> content(r.body)]>>)
    /\ appends' = appends + 1
    /\ UNCHANGED <<mgrVars, call, last, file, nEvents, lastReq, closes, earlyGoto,
                   trip, driver>>

\* ------------------------------------------------------ capability services

\* a service instance comes from get(name), which hands it the manager's page
\* handle and throws when there is none
ServicePage(p) == p # 0 /\ p = page

otherVars == <<mgrVars, netVars, file, closes, earlyGoto>>

\* an awaited page call settles: the operation moves on, or the rejection
\* propagates to the caller
Settle(op, pc, next) ==
    /\ InFlight(op, pc)
    /\ \E ok \in BOOLEAN :
        IF ok /\ Live(call.p)
        THEN Resume(next, call.acc)
        ELSE Finish("threw", <<>>, pc, 0)
    /\ UNCHANGED <<logVars, otherVars>>

\* the last awaited page call settles: the operation pushes its record and returns
SettleAndPush(op, pc, name, data) ==
    /\ InFlight(op, pc)
    /\ \E ok \in BOOLEAN :
        IF ok /\ Live(call.p)
        THEN /\ log' = statePush(log, name, data)
             /\ appends' = appends + 1
             /\ Finish("ok", data, "", Len(log) + 1)
        ELSE /\ Finish("threw", <<>>, pc, 0)
             /\ UNCHANGED logVars
    /\ UNCHANGED otherVars

\* a navigate that issues page.goto without having pushed its record
navigate_unrecorded(p, url) ==
    /\ MayCall("navigate") /\ ServicePage(p)
    /\ RoomFor(1)
    /\ pages' = [pages EXCEPT ![p].navigated = TRUE]
    /\ earlyGoto' = (earlyGoto \/ pages[p].reqH = 0 \/ pages[p].respH = 0)
    /\ Suspend("navigate", "goto", p, url, <<>>)
    /\ UNCHANGED <<logVars, browser, page, browsers, netVars, file, closes>>

\* NavigationService.navigate: statePush, then await page.goto(url, options)
navigate(p, url) ==
    /\ MayCall("navigate") /\ ServicePage(p)
    /\ RoomFor(1)
    /\ log' = statePush(log, "NavigationService",
                        <<[url |-> url, options |-> DefaultGoToOptions]>>)
    /\ appends' = appends + 1
    /\ pages' = [pages EXCEPT ![p].navigated = TRUE]
    /\ earlyGoto' = (earlyGoto \/ pages[p].reqH = 0 \/ pages[p].respH = 0)
    /\ Suspend("navigate", "goto", p, url, <<>>)
    /\ UNCHANGED <<browser, page, browsers, netVars, file, closes>>

\* page.goto settles; the site may have set cookies
navigate_goto ==
    /\ InFlight("navigate", "goto")
    /\ \E ok \in BOOLEAN, served \in JarSeqs :
        IF ok /\ Live(call.p)
        THEN /\ pages' = [pages EXCEPT ![call.p].jar = pageSetCookie(@, served)]
             /\ Finish("ok", <<>>, "", 0)
        ELSE /\ Finish("threw", <<>>, "goto", 0)
             /\ UNCHANGED pages
    /\ UNCHANGED <<logVars, browser, page, browsers, netVars, file, closes, earlyGoto>>

\* ScreenshotService.screenshot: await page.screenshot, then statePush
screenshot(p) ==
    /\ MayCall("screenshot") /\ ServicePage(p)
    /\ RoomFor(1)
    /\ Suspend("screenshot", "screenshot", p, "screenshot.png", <<>>)
    /\ UNCHANGED <<logVars, otherVars>>

\* a screenshot that returns without its record
screenshot_unrecorded ==
    /\ InFlight("screenshot", "screenshot")
    /\ Finish("ok", <<>>, "", 0)
    /\ UNCHANGED <<logVars, otherVars>>

screenshot_taken ==
    SettleAndPush("screenshot", "screenshot", "ScreenshotService",
                  <<[path |-> "screenshot.png", size |-> "byteLength"]>>)

\* ContentService.getContent: await page.evaluate, then statePush
getContent(p) ==
    /\ MayCall("getContent") /\ ServicePage(p)
    /\ RoomFor(1)
    /\ Suspend("getContent", "evaluate", p, <<>>, <<>>)
    /\ UNCHANGED <<logVars, otherVars>>

getContent_body == SettleAndPush("getContent", "evaluate", "ContentService", <<"outerHTML">>)

\* MetricsService.getResults: title, meta and metrics are awaited, then statePush
getResults(p) ==
    /\ MayCall("getResults") /\ ServicePage(p)
    /\ RoomFor(1)
    /\ Suspend("getResults", "title", p, <<>>, <<>>)
    /\ UNCHANGED <<logVars, otherVars>>

getResults_title == Settle("getResults", "title", "meta")

getResults_meta == Settle("getResults", "meta", "metrics")

getResults_metrics ==
    SettleAndPush("getResults", "metrics", "MetricsService",
                  <<[metadata |-> "metadata", metrics |-> "metrics"]>>)

\* PaginationService.discover: two page.evaluate calls, then statePush
discover(p) ==
    /\ MayCall("discover") /\ ServicePage(p)
    /\ RoomFor(1)
    /\ Suspend("discover", "pages", p, <<>>, <<>>)
    /\ UNCHANGED <<logVars, otherVars>>

\* the first evaluate settles, on the document the page shows
discover_pages ==
    /\ InFlight("discover", "pages")
    /\ \E ok \in BOOLEAN, doc \in InputDocuments :
        IF ok /\ Live(call.p)
        THEN Resume("links", [doc |-> doc, pages |-> discoverPages(doc)])
        ELSE Finish("threw", <<>>, "pages", 0)
    /\ UNCHANGED <<logVars, otherVars>>

\* the second evaluate settles; statePush("links discovered", { links, pages })
discover_links ==
    /\ InFlight("discover", "links")
    /\ SettleAndPush("discover", "links", "PaginationService",
                     <<[links |-> "links", pages |-> call.acc.pages]>>)

\* ClickService.click: statePush, await waitForSelector, await page.click
click(p) ==
    /\ MayCall("click") /\ ServicePage(p)
    /\ RoomFor(1)
    /\ log' = statePush(log, "ClickService", <<"selector">>)
    /\ appends' = appends + 1
    /\ Suspend("click", "waitForSelector", p, "selector",
               [found |-> FALSE, clicks |-> 0])
    /\ UNCHANGED otherVars

\* a wait whose rejection is swallowed: page.click is issued all the same
click_wait_swallowed ==
    /\ InFlight("click", "waitForSelector")
    /\ \E found \in BOOLEAN :
        Resume("click", [call.acc EXCEPT !.found = found /\ Live(call.p)])
    /\ UNCHANGED <<logVars, otherVars>>

\* await this.page.waitForSelector(selector) settles: with the element,
\* page.click is awaited; a rejection (timeout) propagates
click_wait ==
    /\ InFlight("click", "waitForSelector")
    /\ \E found \in BOOLEAN :
        IF found /\ Live(call.p)
        THEN Resume("click", [call.acc EXCEPT !.found = TRUE])
        ELSE Finish("threw", <<>>, "waitForSelector", 0)
    /\ UNCHANGED <<logVars, otherVars>>

\* await this.page.click(selector) settles
click_click ==
    /\ InFlight("click", "click")
    /\ \E ok \in BOOLEAN :
        IF ok /\ Live(call.p)
        THEN Finish("ok", [call.acc EXCEPT !.clicks = 1], "", 0)
        ELSE Finish("threw", <<>>, "click", 0)
    /\ UNCHANGED <<logVars, otherVars>>

\* CookiesService.loadCookiesFromStorage: await import(path)...; the path is
\* output/output.json or a file of the caller's
loadCookiesFromStorage(p, f, isOutput) ==
    /\ MayCall("loadCookiesFromStorage") /\ ServicePage(p)
    /\ driver.mode = "run" => isOutput
    /\ Suspend("loadCookiesFromStorage", "import", p, f, [jar |-> pages[p].jar])
    /\ UNCHANGED <<logVars, otherVars>>

\* ... .then(...).catch(() => []) settles; return cookies
loadCookiesFromStorage_import ==
    /\ InFlight("loadCookiesFromStorage", "import")
    /\ LET r == loadCookies(call.arg)
       IN  Finish(r.status, r.val, "", 0)
    /\ UNCHANGED <<logVars, otherVars>>

\* CookiesService.setCookies: if (input?.length) await page.setCookie(...input)
setCookies(p, input) ==
    /\ MayCall("setCookies") /\ ServicePage(p)
    /\ driver.mode = "run" => input = last.val
    /\ IF Len(input) > 0
       THEN Suspend("setCookies", "setCookie", p, input, <<>>)
       ELSE Direct("setCookies", p, input, "ok", <<>>, "")
    /\ UNCHANGED <<logVars, otherVars>>

setCookies_setCookie ==
    /\ InFlight("setCookies", "setCookie")
    /\ \E ok \in BOOLEAN :
        IF ok /\ Live(call.p)
        THEN /\ pages' = [pages EXCEPT ![call.p].jar = pageSetCookie(@, call.arg)]
             /\ Finish("ok", <<>>, "", 0)
        ELSE /\ Finish("threw", <<>>, "setCookie", 0)
             /\ UNCHANGED pages
    /\ UNCHANGED <<logVars, browser, page, browsers, netVars, file, closes, earlyGoto>>

\* CookiesService.getCookies: await page.cookies(), then statePush(...cookies)
getCookies(p) ==
    /\ MayCall("getCookies") /\ ServicePage(p)
    /\ RoomFor(1)
    /\ Suspend("getCookies", "cookies", p, <<>>, <<>>)
    /\ UNCHANGED <<logVars, otherVars>>

getCookies_cookies ==
    /\ InFlight("getCookies", "cookies")
    /\ SettleAndPush("getCookies", "cookies", "CookiesService",
                     pageCookies(pages[call.p].jar))

\* CookiesService.close(id): waitForSelector(...).catch(() => null)
cookiesClose(p) ==
    /\ MayCall("cookiesClose") /\ ServicePage(p)
    /\ Suspend("cookiesClose", "waitForSelector", p, "close-cookies",
               [found |-> FALSE, present |-> FALSE, clicks |-> 0])
    /\ UNCHANGED <<logVars, otherVars>>

\* a wait without its .catch: the timeout reaches the caller
cookiesClose_wait_uncaught ==
    /\ InFlight("cookiesClose", "waitForSelector")
    /\ \E found \in BOOLEAN :
        IF found /\ Live(call.p)
        THEN Resume("evaluate", [call.acc EXCEPT !.found = TRUE])
        ELSE Finish("threw", <<>>, "waitForSelector", 0)
    /\ UNCHANGED <<logVars, otherVars>>

\* the wait settles: with the element, page.evaluate is awaited; with a timeout
\* or any other rejection, closeContent is null and close returns
cookiesClose_wait ==
    /\ InFlight("cookiesClose", "waitForSelector")
    /\ \E found \in BOOLEAN :
        IF found /\ Live(call.p)
        THEN Resume("evaluate", [call.acc EXCEPT !.found = TRUE])
        ELSE Finish("ok", call.acc, "", 0)
    /\ UNCHANGED <<logVars, otherVars>>

\* page.evaluate settles: the button is clicked if getElementById still finds it
cookiesClose_evaluate ==
    /\ InFlight("cookiesClose", "evaluate")
    /\ \E ok \in BOOLEAN, present \in BOOLEAN :
        IF ok /\ Live(call.p)
        THEN Finish("ok", [call.acc EXCEPT !.present = present,
                                            !.clicks = IF present THEN 1 ELSE 0],
                    "", 0)
        ELSE Finish("threw", <<>>, "evaluate", 0)
    /\ UNCHANGED <<logVars, otherVars>>

\* ------------------------------------------------------------ ScrollService

\* let previousSize = 0
InitialPreviousSize == 0

\* a measurement that takes the height for every direction but horizontal
measure_heightForBoth(dir, el) ==
    IF dir = "horizontal" THEN el.scrollWidth ELSE el.scrollHeight

\* dir === "horizontal" || dir === "both" ? element.scrollWidth : element.scrollHeight
measure(dir, el) ==
    IF dir = "horizontal" \/ dir = "both" THEN el.scrollWidth ELSE el.scrollHeight

\* the axes one iteration scrolls: scrollTo({ left }) for horizontal and both,
\* then scrollTo({ top }) for vertical and both
scrolledAxes(dir) ==
    (IF dir = "horizontal" \/ dir = "both" THEN {"left"} ELSE {})
      \cup (IF dir = "vertical" \/ dir = "both" THEN {"top"} ELSE {})

\* while (currentSize !== previousSize)
loopsAgain(acc) == acc.currentSize # acc.previousSize

\* the loop test and what follows it: the body starts with previousSize =
\* currentSize and the awaited scrollTo, or scroll returns
scrollLoop(acc) ==
    IF loopsAgain(acc)
    THEN Resume("scrollTo", [acc EXCEPT !.previousSize = acc.currentSize])
    ELSE Finish("ok", acc, "", 0)

\* ScrollService.scroll: statePush, then await waitForSelector
scroll(p, direction) ==
    /\ MayCall("scroll") /\ ServicePage(p)
    /\ RoomFor(1)
    /\ log' = statePush(log, "ScrollService",
                        <<[selector |-> "selector", direction |-> direction]>>)
    /\ appends' = appends + 1
    /\ Suspend("scroll", "waitForSelector", p, direction,
               [previousSize |-> InitialPreviousSize, currentSize |-> 0,
                els |-> <<>>, actions |-> 0, axes |-> {}])
    /\ UNCHANGED otherVars

scroll_wait == Settle("scroll", "waitForSelector", "measure0")

\* the first measurement settles; then the loop test
scroll_measure0 ==
    /\ InFlight("scroll", "measure0")
    /\ \E ok \in BOOLEAN, el \in InputElements :
        IF ok /\ Live(call.p)
        THEN scrollLoop([call.acc EXCEPT !.currentSize = measure(call.arg, el),
                                         !.els = Append(@, el)])
        ELSE Finish("threw", <<>>, "Element not found", 0)
    /\ UNCHANGED <<logVars, otherVars>>

\* the smooth scroll (one scrollTo per requested axis, 500 ms each) settles
scroll_scrollTo ==
    /\ InFlight("scroll", "scrollTo")
    /\ \E ok \in BOOLEAN :
        IF ok /\ Live(call.p)
        THEN Resume("waitForNavigation",
                    [call.acc EXCEPT !.actions = @ + 1,
                                     !.axes = scrolledAxes(call.arg)])
        ELSE Finish("threw", <<>>, "Element not found", 0)
    /\ UNCHANGED <<logVars, otherVars>>

\* await page.waitForNavigation({ waitUntil: "networkidle0" })
scroll_waitForNavigation == Settle("scroll", "waitForNavigation", "measure")

\* the measurement after a scroll settles; then the random delay is awaited
scroll_measure ==
    /\ InFlight("scroll", "measure")
    /\ Len(call.acc.els) < MaxMeasures
    /\ \E ok \in BOOLEAN, el \in InputElements :
        IF ok /\ Live(call.p)
        THEN Resume("delay", [call.acc EXCEPT !.currentSize = measure(call.arg, el),
                                                 !.els = Append(@, el)])
        ELSE Finish("threw", <<>>, "Element not found", 0)
    /\ UNCHANGED <<logVars, otherVars>>

\* the delay settles; then the loop test
scroll_delay ==
    /\ InFlight("scroll", "delay")
    /\ \E ok \in BOOLEAN :
        IF ok /\ Live(call.p)
        THEN scrollLoop(call.acc)
        ELSE Finish("threw", <<>>, "delay", 0)
    /\ UNCHANGED <<logVars, otherVars>>

\* ------------------------------------------------------- the specifications

InitializeStep ==
    \/ \E opts \in OptionSets : initialize(opts)
    \/ initialize_browser
    \/ initialize_newPage
    \/ initialize_attach

ManagerStep ==
    \/ InitializeStep
    \/ exportState
    \/ close
    \/ close_page
    \/ close_browser

ListenerStep ==
    \/ \E p \in 1..Len(pages), t \in ResourceTypes : requestEvent(p, t)
    \/ \E p \in 1..Len(pages), req \in 1..nEvents, b \in Bodies :
          responseEvent(p, req, b)
    \/ \E r \in pending : responseLogged(r)

NavigationStep ==
    \/ navigate(page, OutputUrl)
    \/ navigate_goto

CookiesStep ==
    \/ loadCookiesFromStorage(page, file, TRUE)
    \/ loadCookiesFromStorage_import
    \/ \E input \in CookieInputs : setCookies(page, input)
    \/ setCookies_setCookie
    \/ getCookies(page)
    \/ getCookies_cookies

ScrollStep ==
    \/ \E d \in Directions : scroll(page, d)
    \/ scroll_wait
    \/ scroll_measure0
    \/ scroll_scrollTo
    \/ scroll_waitForNavigation
    \/ scroll_measure
    \/ scroll_delay

RunServiceStep ==
    \/ NavigationStep
    \/ CookiesStep
    \/ screenshot(page)
    \/ screenshot_taken
    \/ getContent(page)
    \/ getContent_body
    \/ getResults(page)
    \/ getResults_title
    \/ getResults_meta
    \/ getResults_metrics
    \/ discover(page)
    \/ discover_pages
    \/ discover_links
    \/ cookiesClose(page)
    \/ cookiesClose_wait
    \/ cookiesClose_evaluate

LoadStep == \E f \in InputSnapshots : loadCookiesFromStorage(page, f, FALSE)

ClientOnlyStep ==
    \/ get_page
    \/ get_browser
    \/ \E name \in ServiceNames \cup {"UnknownService"} : get(name)
    \/ \E name \in ListenerNames \cup {"UnknownListener"} : listen(name)
    \/ LoadStep
    \/ click(page)
    \/ click_wait
    \/ click_click
    \/ ScrollStep

Next == ManagerStep \/ ListenerStep \/ RunServiceStep \/ ClientOnlyStep

\* any client of the exported classes
Spec == Init /\ [][Next]_vars

NextRun == ManagerStep \/ ListenerStep \/ RunServiceStep

\* the driver routine `run`
RunSpec == InitRun /\ [][NextRun]_vars

NextCookies == InitializeStep \/ exportState \/ NavigationStep \/ CookiesStep \/ LoadStep

\* any client, and the driver routine
SessionSpec == (Init \/ InitRun) /\ [][Next]_vars

\* a client of the cookies service, under every snapshot
CookieSpec == InitCookies /\ [][NextCookies]_vars

NextScroll == InitializeStep \/ ScrollStep

\* a client of the scroll service, under every element
ScrollSpec == InitScroll /\ [][NextScroll]_vars

NextPagination == InitializeStep \/ discover(page) \/ discover_pages \/ discover_links

\* a client of the pagination service, under every document
NextTraffic == InitializeStep \/ NavigationStep \/ ListenerStep

TrafficSpec == InitTraffic /\ [][NextTraffic]_vars

PaginationSpec == InitPagination /\ [][NextPagination]_vars

\* ------------------------------------------------------------------ claims

IsPrefix(a, b) == Len(a) <= Len(b) /\ SubSeq(b, 1, Len(a)) = a

Returned(op) == last.op = op /\ last.status = "ok"

\* C1: the log is append-only: in every step the log before is a prefix of the
\* log after, and its length is the number of statePush invocations so far.
C1_AppendOnly == [][IsPrefix(log, log')]_vars /\ [](Len(log) = appends)

\* C1 witness: a service record followed by two listener records
C1_Witness ==
    /\ Len(log) >= 3
    /\ log[1].src = "NavigationService"
    /\ log[2].src = "RequestInterceptorListener"
    /\ log[3].src = "ResponseInterceptorListener"

ServiceOps ==
    {"navigate", "scroll", "loadCookiesFromStorage", "setCookies", "getCookies",
     "cookiesClose", "click", "discover", "getResults", "screenshot", "getContent"}
AppendFirst == {"navigate", "scroll", "click"}
AppendLast == {"getCookies", "discover", "getResults", "screenshot", "getContent"}
AppendNever == {"loadCookiesFromStorage", "setCookies", "cookiesClose"}

\* C2 as claimed: every operation of every capability service that completes
\* has made exactly one append.
C2_OneAppendEach == (last.op \in ServiceOps /\ last.status = "ok") => OwnAppends(last) = 1

\* C2 amended: navigate, scroll and click make their one append before their
\* first awaited page request, so also when the operation then throws;
\* getCookies, discover, getResults, screenshot and getContent make their one
\* append when their last awaited page request has completed, and none when it
\* fails; loadCookiesFromStorage, setCookies and close make none.
C2_AppendsByOperation ==
    /\ call.op \in AppendFirst => OwnAppends(call) = 1
    /\ last.op \in AppendFirst => OwnAppends(last) = 1
    /\ call.op \in AppendLast \cup AppendNever => OwnAppends(call) = 0
    /\ last.op \in AppendLast => OwnAppends(last) = (IF last.status = "ok" THEN 1 ELSE 0)
    /\ last.op \in AppendNever => OwnAppends(last) = 0

\* C2 witness: a screenshot completed with its record at the end of a log that
\* a listener has appended to as well
C2_Witness ==
    /\ Returned("screenshot")
    /\ OwnAppends(last) = 1
    /\ \E i \in 1..Len(log) : log[i].src = "RequestInterceptorListener"

\* the manager holds a page handle that is open, in a connected browser
Initialized == page # 0 /\ Live(page)

\* C3: once close() has completed, no later initialize brings the session back
\* to an initialized state.
C3_NoInitializeAfterClose == closes > 0 => ~Initialized

\* C4: in `run`, no page.goto is issued on a page before both listeners are
\* attached to it, no listener is attached twice to a page, and once initialize
\* has returned each listener is attached exactly once to the session's page.
C4_ListenersBeforeNavigation ==
    /\ ~earlyGoto
    /\ \A p \in 1..Len(pages) : pages[p].reqH <= 1 /\ pages[p].respH <= 1
    /\ (driver.mode \in {"run", "done"} /\ driver.pc > 1) =>
          /\ Len(pages) = 1 /\ page = 1
          /\ pages[page].reqH = 1 /\ pages[page].respH = 1 /\ pages[page].intercept

\* C4 witness: the navigation of `run` was issued and a response came in
C4_Witness ==
    /\ driver.mode = "run" /\ page # 0 /\ pages[page].navigated
    /\ \E i \in 1..Len(log) : log[i].src = "ResponseInterceptorListener"

\* C5: every request record says aborted exactly for font, stylesheet and
\* other, and the request is aborted when its record says so and continued
\* otherwise, once.
C5_AbortedIffBlocked ==
    /\ \A i \in 1..Len(log) :
          log[i].src = "RequestInterceptorListener" =>
             (log[i].data[1].aborted
                <=> log[i].data[1].resourceType \in {"font", "stylesheet", "other"})
    /\ lastReq.at # 0 =>
          /\ log[lastReq.at].src = "RequestInterceptorListener"
          /\ log[lastReq.at].data[1].resourceType = lastReq.resourceType
          /\ lastReq.aborts + lastReq.continues = 1
          /\ lastReq.aborts = 1 <=> log[lastReq.at].data[1].aborted

\* C5 witness: a font request was recorded as aborted and was aborted
C5_Witness ==
    /\ lastReq.resourceType = "font" /\ lastReq.aborts = 1
    /\ log[lastReq.at].data[1].aborted

\* the extents scroll has measured, in order
Measurements(dir, els) == [i \in 1..Len(els) |-> measure(dir, els[i])]

\* C6: when scroll returns it has taken at least two measurements, the last
\* two are equal and no earlier two consecutive ones are, and it has issued one
\* scroll action fewer than it took measurements.
C6_ConvergenceCount ==
    Returned("scroll") =>
        LET m == Measurements(last.arg, last.val.els)
            n == Len(m)
        IN  /\ n >= 2
            /\ m[n] = m[n - 1]
            /\ \A i \in 2..(n - 1) : m[i] # m[i - 1]
            /\ last.val.actions = n - 1

\* C7: scroll returns normally only when the last two measurements it took
\* were equal.
C7_ReturnsOnlyOnEqualPair ==
    Returned("scroll") =>
        /\ Len(last.val.els) >= 2
        /\ measure(last.arg, last.val.els[Len(last.val.els)])
             = measure(last.arg, last.val.els[Len(last.val.els) - 1])

\* the positions of the Cookies-sourced records of a snapshot
CookieRecordsOf(f) ==
    IF f.kind # "array" THEN {}
    ELSE {j \in 1..Len(f.value) :
             f.value[j].t = "object" /\ f.value[j].key = "CookiesService"}

Max(S) == CHOOSE x \in S : \A y \in S : y <= x

\* the positions of the Cookies-sourced records that hold a non-empty cookie set
CookieSetRecordsOf(f) == {j \in CookieRecordsOf(f) : f.value[j].val # <<>>}

\* C8: for a snapshot as exportState writes it with several Cookies-sourced
\* records, loadCookiesFromStorage returns the cookie set of the last of them
\* that holds one.
C8_MostRecentCookies ==
    (/\ Returned("loadCookiesFromStorage")
     /\ WrittenByExport(last.arg)
     /\ Cardinality(CookieRecordsOf(last.arg)) >= 2
     /\ CookieSetRecordsOf(last.arg) # {}) =>
        last.val = last.arg.value[Max(CookieSetRecordsOf(last.arg))].val

\* a null record comes before every Cookies-sourced record of the snapshot
NullFirst(f) ==
    /\ f.kind = "array"
    /\ \E i \in 1..Len(f.value) :
          /\ f.value[i].t = "null"
          /\ \A j \in CookieRecordsOf(f) : i < j

\* C9: loadCookiesFromStorage never throws and leaves the log and the page's
\* cookies as they were; it returns the empty set when the file is missing,
\* malformed or not a sequence, when no record is Cookies-sourced, and when
\* a null record stops the scan.
C9_LoadNeverThrows ==
    last.op = "loadCookiesFromStorage" =>
        /\ last.status = "ok"
        /\ OwnAppends(last) = 0
        /\ pages[last.p].jar = last.acc.jar
        /\ (CookieRecordsOf(last.arg) = {} \/ NullFirst(last.arg)) => last.val = <<>>

\* C9 witness: a snapshot whose scan throws on a null record was loaded on a
\* page that has cookies, and the empty set came back
C9_Witness ==
    /\ Returned("loadCookiesFromStorage")
    /\ NullFirst(last.arg) /\ CookieRecordsOf(last.arg) # {}
    /\ last.val = <<>>
    /\ pages[last.p].jar # EmptyJar

\* C10: after loadCookiesFromStorage of a snapshot written by exportState,
\* setCookies of what it returned on a page without cookies, and getCookies,
\* the page reports exactly C and the record getCookies appended carries
\* exactly C, for every non-empty cookie set C of a Cookies-sourced record of
\* the snapshot.
C10_CookieRoundTrip ==
    (trip.stage = 3 /\ trip.exported) =>
        \A C \in trip.sets :
            /\ pageCookies(pages[trip.p].jar) = C
            /\ log[trip.at] = [src |-> "CookiesService", data |-> C]

Both == {"browserWSEndpoint", "executablePath"}

\* the awaited call an initialize with these options is at, or has made
Selected(c, how) ==
    /\ c.acc.how = how
    /\ c.op = "initialize" /\ "pc" \in DOMAIN c => c.pc \in {how, "newPage", "setRequestInterception"}

\* C11: an initialize whose options hold both browserWSEndpoint and
\* executablePath connects and never launches; one whose options hold only
\* executablePath launches; and `run` with REMOTE_BROWSER set connects, whether
\* or not EXECUTABLE_PATH is set.
C11_ConnectOverLaunch ==
    \A c \in {call, last} :
        c.op = "initialize" =>
            /\ Both \subseteq c.arg => Selected(c, "connect")
            /\ Both \cap c.arg = {"executablePath"} => Selected(c, "launch")
            /\ (driver.mode \in {"run", "failed"} /\ "REMOTE_BROWSER" \in driver.env)
                  => Selected(c, "connect")

\* C11 witness: initialize with both options has returned, having connected
C11_Witness ==
    /\ Returned("initialize")
    /\ Both \subseteq last.arg
    /\ last.acc.how = "connect"

\* an initialize has run to its end: its last step attaches the response
\* listener to the page it opened
InitializeCompleted == \E p \in 1..Len(pages) : pages[p].respH > 0

\* C12 as claimed: while no initialize has completed, reading page fails with
\* "Missing page instance" and reading browser with "Missing browser instance".
C12_MissingUntilInitialized ==
    ~InitializeCompleted =>
        /\ last.op = "page" => last.status = "threw" /\ last.err = "Missing page instance"
        /\ last.op = "browser" =>
              last.status = "threw" /\ last.err = "Missing browser instance"

\* C12 amended: reading page fails with "Missing page instance" exactly while
\* no page handle has been assigned, and reading browser fails with "Missing
\* browser instance" exactly while no browser handle has been assigned, which
\* is so in every state before the first initialize; a read that does not fail
\* yields the assigned handle, never an undefined one.
C12_MissingUntilAssigned ==
    /\ last.op = "page" =>
          IF page = 0
          THEN last.status = "threw" /\ last.err = "Missing page instance"
          ELSE last.status = "ok" /\ last.val = page
    /\ last.op = "browser" =>
          IF browser = 0
          THEN last.status = "threw" /\ last.err = "Missing browser instance"
          ELSE last.status = "ok" /\ last.val = browser
    /\ (browsers = <<>> /\ call.op = "none") => browser = 0 /\ page = 0

\* C12 witness: page was read after an initialize that connected and then
\* failed to open a page, and the read threw
C12_Witness ==
    /\ last.op = "page" /\ last.status = "threw"
    /\ browser # 0 /\ ~InitializeCompleted

\* C13: get(name) and listen(name) with a registered name return an instance
\* bound to the session's page in every session state, the Uninitialized one
\* included, and with an unregistered name they fail with the "not found"
\* error for that name.
C13_PureLookups ==
    /\ last.op = "get" =>
          IF last.arg \in ServiceNames
          THEN last.status = "ok" /\ last.val = page
          ELSE last.status = "threw" /\ last.err = "Service not found"
    /\ last.op = "listen" =>
          IF last.arg \in ListenerNames
          THEN last.status = "ok" /\ last.val = page
          ELSE last.status = "threw" /\ last.err = "Listener not found"

\* the position of the latest record of the log that carries the tag `name`
LastOf(l, name) == Max({i \in 1..Len(l) : l[i].src = name})

\* the log holds exactly one record of this navigate, with its url and options
NavigationRecorded(c) ==
    /\ OwnAppends(c) = 1
    /\ log[LastOf(log, "NavigationService")].data
          = <<[url |-> c.arg, options |-> DefaultGoToOptions]>>

\* C14: while page.goto is awaited, and when it has failed or timed out, the
\* log holds exactly one new Navigation record for the attempt, with its url
\* and options, and the failure reaches the caller as a throw of navigate.
C14_RecordBeforeGoto ==
    /\ InFlight("navigate", "goto") => NavigationRecorded(call)
    /\ last.op = "navigate" =>
          /\ NavigationRecorded(last)
          /\ last.status = "threw" <=> last.err = "goto"

\* C14 witness: a navigation failed and its record is the latest in the log
C14_Witness ==
    /\ last.op = "navigate" /\ last.status = "threw"
    /\ Len(log) >= 1 /\ log[Len(log)].src = "NavigationService"

\* C15: click pushes its intent, then waits for the selector, then clicks:
\* page.click is issued only after the selector was found; when the wait
\* fails, click throws the wait's error, no click was performed, and the
\* intent record is in the log.
C15_ClickOrder ==
    /\ call.op = "click" =>
          /\ OwnAppends(call) = 1 /\ call.acc.clicks = 0
          /\ call.pc = "click" <=> call.acc.found
    /\ last.op = "click" =>
          /\ OwnAppends(last) = 1
          /\ last.status = "ok" => last.val = [found |-> TRUE, clicks |-> 1]
          /\ ~last.acc.found =>
                /\ last.status = "threw" /\ last.err = "waitForSelector"
                /\ last.acc.clicks = 0

\* C15 witness: the selector never appeared: click threw the wait's error and
\* its intent is the latest record
C15_Witness ==
    /\ last.op = "click" /\ last.status = "threw" /\ last.err = "waitForSelector"
    /\ log[Len(log)].src = "ClickService" /\ log[Len(log)].data = <<"selector">>

\* the responses observed so far: every event is a request or a response, and
\* each request event has left its record
ResponsesObserved == nEvents - CountSrc(log, "RequestInterceptorListener")

\* the records of the log for the response `id`
RecordsOf(id) ==
    {i \in 1..Len(log) :
        log[i].src = "ResponseInterceptorListener" /\ log[i].data[1].id = id}

\* C16: every observed response is awaiting its body or has exactly one record,
\* never more; and the step that ends a handler appends that response's record,
\* whose content is null when the body could not be read and the body otherwise.
C16_OneRecordPerResponse ==
    /\ [](/\ ResponsesObserved
               = Cardinality(pending) + CountSrc(log, "ResponseInterceptorListener")
          /\ \A id \in 1..nEvents : Cardinality(RecordsOf(id)) <= 1
          /\ \A r \in pending : RecordsOf(r.id) = {})
    /\ [][\A r \in pending \ pending' :
             /\ Len(log') = Len(log) + 1
             /\ log'[Len(log')].src = "ResponseInterceptorListener"
             /\ log'[Len(log')].data
                   = <<[id |-> r.id, req |-> r.req,
                        content |-> IF r.body = "unreadable" THEN "null" ELSE r.body]>>]_vars

\* C16 witness: a response whose body could not be read has its record, with
\* content null
C16_Witness ==
    \E i \in 1..Len(log) :
        /\ log[i].src = "ResponseInterceptorListener"
        /\ log[i].data[1].content = "null"

\* C17: exportState never throws and leaves the log as it was; when the write
\* succeeded the file holds the whole log of the moment of the call, in order,
\* and when it failed the file is as it was before the call (all or nothing);
\* in `run` the next statement is close.
C17_ExportAllOrNothing ==
    last.op = "exportState" =>
        /\ last.status = "ok"
        /\ IsPrefix(last.arg.state, log)
        /\ OwnAppends(last) = 0
        /\ file = IF last.val = "written" THEN JsonStringify(last.arg.state)
                  ELSE last.arg.old
        /\ driver.mode = "run" => RunSteps[driver.pc] = "close"

\* C18 as claimed: close completes normally without a click when the overlay
\* element does not appear, and clicks it exactly once when it appears.
C18_ClickedOnceWhenFound ==
    last.op = "cookiesClose" =>
        /\ last.status = "ok"
        /\ last.val.clicks = (IF last.acc.found THEN 1 ELSE 0)

\* C18 amended: when the wait for the overlay element fails or times out,
\* close completes normally without a click; when the element appears, close
\* awaits one page evaluation, which clicks the element once if it is still in
\* the document and not at all if it is gone, and whose rejection close throws.
C18_BestEffortClose ==
    /\ call.op = "cookiesClose" =>
          /\ call.acc.clicks = 0
          /\ call.pc = "evaluate" <=> call.acc.found
    /\ last.op = "cookiesClose" =>
          /\ ~last.acc.found => last.status = "ok" /\ last.val.clicks = 0
          /\ last.status = "ok" =>
                last.val.clicks = (IF last.acc.found /\ last.val.present THEN 1 ELSE 0)
          /\ last.status = "threw" => last.acc.found /\ last.err = "evaluate"

\* C18 witness: the overlay never appeared and close returned without a click
C18_Witness ==
    /\ Returned("cookiesClose")
    /\ ~last.acc.found /\ last.val.clicks = 0

\* the label's number is negative; the label's number is zero or more
Negative(a) == ~parseInt(a.text).nan /\ parseInt(a.text).n < 0
ZeroOrMore(a) == ~parseInt(a.text).nan /\ parseInt(a.text).n >= 0

\* props holds the query's values under lower-cased keys, the last value of
\* each key
LowerKeyed(props, query) ==
    /\ ~props.null
    /\ DOMAIN props.params = {toLocaleLowerCase(query[i][1]) : i \in 1..Len(query)}
    /\ \A k \in DOMAIN props.params :
          /\ toLocaleLowerCase(k) = k
          /\ props.params[k]
                = query[Max({i \in 1..Len(query) : toLocaleLowerCase(query[i][1]) = k})][2]

\* r holds exactly the anchors of d that qualify and have a URL, in document
\* order, each with its position in d and its lower-keyed query
Discovered(d, r, Qualifies(_)) ==
    /\ \A i \in 1..Len(d) :
          (Qualifies(d[i]) /\ ~d[i].href.blank) <=> \E j \in 1..Len(r) : r[j].pos = i - 1
    /\ \A j, k \in 1..Len(r) : j < k => r[j].pos < r[k].pos
    /\ \A j \in 1..Len(r) :
          /\ r[j].pos \in 0..(Len(d) - 1)
          /\ r[j].href = d[r[j].pos + 1].href
          /\ r[j].page = parseInt(d[r[j].pos + 1].text)
          /\ LowerKeyed(r[j].props, r[j].href.query)
    /\ d = FiveAnchors =>
          /\ Len(r) = 5
          /\ \A n \in 1..5 : r[n].props.params["page"] = d[n].text

NotNegative(a) == ~Negative(a)

\* C19 as claimed: discover keeps exactly the anchors whose parsed page number
\* is not negative and whose URL is not blank, in document order, each with its
\* position and its lower-keyed query; five anchors 1..5 with Page=N give five
\* entries with page parameter N.
C19_KeepsNotNegative ==
    Returned("discover") => Discovered(last.acc.doc, last.val[1].pages, NotNegative)

\* C19 amended: discover keeps exactly the anchors whose label parses to a
\* number that is zero or more and whose URL is not blank, so an anchor whose
\* label is no number is dropped too; the rest as claimed.
C19_KeepsNumbered ==
    Returned("discover") => Discovered(last.acc.doc, last.val[1].pages, ZeroOrMore)

\* C19 witness: discover returned on a bar with a numbered anchor, a "Next"
\* anchor and an anchor without href, and kept the numbered one alone
C19_Witness ==
    /\ Returned("discover")
    /\ last.acc.doc = <<Anchor("3", Blank), Anchor("Next", Url(<<<<"Page", "2">>>>)),
                        PageAnchor("2")>>
    /\ Len(last.val[1].pages) = 1 /\ last.val[1].pages[1].pos = 2

\* C20: the records of two responses are in the log in the order in which the
\* responses were observed, and when a service operation starts and appends
\* its record, every response observed before has its record already.
C20_ObservationOrder ==
    /\ [](\A i, j \in 1..Len(log) :
             (/\ i < j
              /\ log[i].src = "ResponseInterceptorListener"
              /\ log[j].src = "ResponseInterceptorListener")
                => log[i].data[1].id < log[j].data[1].id)
    /\ [][(call.op = "none" /\ call'.op \in AppendFirst) => pending = {}]_vars

\* the extent the claim names: the width for horizontal, the height otherwise
HeightForBoth(dir, el) ==
    IF dir = "horizontal" THEN el.scrollWidth ELSE el.scrollHeight

\* the width for horizontal and for both, the height for vertical alone
WidthForBoth(dir, el) ==
    IF dir = "vertical" THEN el.scrollHeight ELSE el.scrollWidth

\* the extent that was compared with the latest one: that of the measurement
\* before it, or the initial previous size
ExtentBefore(dir, els, Extent(_, _)) ==
    IF Len(els) >= 2 THEN Extent(dir, els[Len(els) - 1]) ELSE InitialPreviousSize

\* scroll compares the given extent of the element: the size it holds is that
\* extent of the latest measurement, it scrolls again exactly when that
\* differs from the one before and returns exactly when they are equal, and
\* an iteration scrolls left for horizontal, top for vertical, both for both
ScrollDecidedBy(Extent(_, _)) ==
    /\ (call.op = "scroll" /\ Len(call.acc.els) >= 1) =>
          call.acc.currentSize
            = Extent(call.arg, call.acc.els[Len(call.acc.els)])
    /\ InFlight("scroll", "scrollTo") =>
          Extent(call.arg, call.acc.els[Len(call.acc.els)])
            # ExtentBefore(call.arg, call.acc.els, Extent)
    /\ Returned("scroll") =>
          Extent(last.arg, last.val.els[Len(last.val.els)])
            = ExtentBefore(last.arg, last.val.els, Extent)
    /\ (call.op = "scroll" /\ call.acc.actions >= 1) =>
          /\ ("left" \in call.acc.axes) = (call.arg \in {"horizontal", "both"})
          /\ ("top" \in call.acc.axes) = (call.arg \in {"vertical", "both"})

\* C21: the extent scroll measures for convergence is the scroll width for
\* direction horizontal and the scroll height for vertical or both; with both,
\* the height alone decides termination although both axes are scrolled.
C21_HeightDecidesBoth == ScrollDecidedBy(HeightForBoth)

\* C21 as the code has it: the width is measured for horizontal and for both,
\* the height for vertical alone; with both, the width alone decides
\* termination although both axes are scrolled.
C21_WidthDecidesBoth == ScrollDecidedBy(WidthForBoth)

\* C21 witness: a scroll in direction both returned after an iteration that
\* scrolled both axes, on two measurements of equal width and unequal height
C21_Witness ==
    /\ Returned("scroll") /\ last.arg = "both"
    /\ Len(last.val.els) = 2
    /\ last.val.axes = {"left", "top"}
    /\ last.val.els[1].scrollWidth = last.val.els[2].scrollWidth
    /\ last.val.els[1].scrollHeight # last.val.els[2].scrollHeight

\* the positions of the records of the request `id`
RequestRecordsOf(id) ==
    {i \in 1..Len(log) :
        log[i].src = "RequestInterceptorListener" /\ log[i].data[1].id = id}

\* C22: every intercepted request is resolved exactly once, by abort or by
\* continue and never both or neither; its record is in the log when it is
\* resolved; and the record of a request precedes the record of that
\* request's response: a response awaiting its body or with its record answers
\* a request that was continued and whose one record is already in the log,
\* before the response's.
C22_ResolvedOnceRecordFirst ==
    /\ [](/\ lastReq.at # 0 => lastReq.aborts + lastReq.continues = 1
          /\ \A r \in pending :
                \E i \in RequestRecordsOf(r.req) : ~log[i].data[1].aborted
          /\ \A j \in 1..Len(log) :
                log[j].src = "ResponseInterceptorListener" =>
                    /\ Cardinality(RequestRecordsOf(log[j].data[1].req)) = 1
                    /\ \A i \in RequestRecordsOf(log[j].data[1].req) :
                          i < j /\ ~log[i].data[1].aborted)
    /\ [][lastReq' # lastReq =>
             /\ Len(log') = Len(log) + 1
             /\ lastReq'.at = Len(log')
             /\ log'[Len(log')].src = "RequestInterceptorListener"
             /\ log'[Len(log')].data[1].id = nEvents'
             /\ \A i \in 1..Len(log) :
                   log[i].src = "RequestInterceptorListener"
                       => log[i].data[1].id # nEvents'
             /\ lastReq'.aborts + lastReq'.continues = 1]_vars

\* C22 witness: a request was aborted and has no response, another was
\* continued and its record precedes the record of its response
C22_Witness ==
    /\ \E i \in 1..Len(log) :
          /\ log[i].src = "RequestInterceptorListener" /\ log[i].data[1].aborted
    /\ \E i, j \in 1..Len(log) :
          /\ i < j
          /\ log[i].src = "RequestInterceptorListener"
          /\ log[j].src = "ResponseInterceptorListener"
          /\ log[j].data[1].req = log[i].data[1].id

\* the options carry neither a remote endpoint nor an executable path
Neither(opts) == "browserWSEndpoint" \notin opts /\ "executablePath" \notin opts

\* the first call on the manager was initialize with such options, and it is over
FirstWasBareInitialize ==
    /\ driver.mode = "client" /\ driver.pc = 1
    /\ last.op = "initialize" /\ Neither(last.arg)

\* C23: initialize called on a fresh manager with options that carry neither
\* a remote endpoint nor an executable path fails with "Missing browser
\* instance" and leaves the session Uninitialized: no browser was connected or
\* launched, no page opened, no listener attached, and the log is empty.
C23_BareInitializeFails ==
    FirstWasBareInitialize =>
        /\ last.status = "threw" /\ last.err = "Missing browser instance"
        /\ browser = 0 /\ browsers = <<>>
        /\ page = 0 /\ pages = <<>>
        /\ ~Initialized
        /\ log = <<>> /\ appends = 0

\* C23 witness: the first call was initialize without endpoint and executable
\* path, and it threw
C23_Witness == FirstWasBareInitialize /\ last.status = "threw"

====
